---- MODULE Spec2Model ----
(***************************************************************************)
(* Community parking rental: the entity store (MemStorage and              *)
(* DatabaseStorage of server/storage.ts) and the REST handlers of          *)
(* server/routes.ts that drive it.                                         *)
(*                                                                         *)
(* A store is a record of the six collections and the id counters.  The    *)
(* storage methods are operators from a store (and arguments) to a record  *)
(* [st |-> the store after the call, ret |-> what the call returns].       *)
(* The handlers are the actions.  Spec runs the handlers one request at a  *)
(* time; SpecRental and SpecOffer run the rental and the request/offer     *)
(* handlers alone, for longer; SpecConc and SpecOfferConc run two POST     *)
(* /api/rentals, respectively two POST offers, requests against the        *)
(* relational store one database statement at a time; SpecExpiring runs    *)
(* GET /api/rentals/expiring on stores of rentals with end dates;          *)
(* SpecLifecycle runs create-rental and end-rental requests only.          *)
(***************************************************************************)
EXTENDS Integers, Sequences, FiniteSets, TLC

VARIABLES backend, parkingSpaces, households, rentals, activityLogs,
          rentalRequests, parkingOffers, parkingSpaceCurrentId,
          householdCurrentId, rentalCurrentId, rentalRequestCurrentId,
          parkingOfferCurrentId, resp, budget, pc, req, resultHasCount

storeVars == <<parkingSpaces, households, rentals, activityLogs,
               rentalRequests, parkingOffers, parkingSpaceCurrentId,
               householdCurrentId, rentalCurrentId, rentalRequestCurrentId,
               parkingOfferCurrentId>>

vars == <<backend, parkingSpaces, households, rentals, activityLogs,
          rentalRequests, parkingOffers, parkingSpaceCurrentId,
          householdCurrentId, rentalCurrentId, rentalRequestCurrentId,
          parkingOfferCurrentId, resp, budget, pc, req, resultHasCount>>

(***************************************************************************)
(* Bounds of the model.                                                    *)
(***************************************************************************)
\* parking spaces seeded by initializeData (30 in the source, scaled down)
InitSpaces == 1
\* households seeded by initializeData (2 in the source, scaled down)
InitHouseholds == 1
\* ids a collection may hand out before create is no longer offered
MaxSpaces == 2
MaxHouseholds == 2
MaxRentals == 2
MaxRequests == 2
MaxOffers == 2
\* requests handled in a run: under Spec (every handler), under SpecRental
\* (the rental lifecycle) and under SpecOffer (the request/offer flow)
MaxServed == 2
MaxRentalServed == 3
MaxOfferServed == 3
\* requests handled one at a time next to the two racing offers (SpecOfferConc)
MaxOfferConcServed == 2
\* SpecExpiring: the calendar days, the instants distinguished within a day,
\* the largest days parameter asked for, and the queries answered
MaxDay == 3
TicksPerDay == 2
MaxThreshold == 2
MaxExpiringServed == 1
\* requests handled under SpecLifecycle (create-rental and end-rental only)
MaxLifecycleServed == 4

(***************************************************************************)
(* Values.                                                                 *)
(***************************************************************************)
\* a JS undefined / SQL NULL id
Null == 0
\* a property that the request body does not carry
Absent == "absent"
\* a property read from an object that does not have it
Undefined == "undefined"

SPACE_STATUS == {"AVAILABLE", "OCCUPIED", "MAINTENANCE"}
REQUEST_STATUS == {"PENDING", "MATCHED", "EXPIRED", "CANCELLED"}

SpaceNumbers == {"A-01", "A-02"}
HouseholdNumbers == {"1201", "1502"}

\* the store of the state
Store ==
  [parkingSpaces |-> parkingSpaces, households |-> households,
   rentals |-> rentals, activityLogs |-> activityLogs,
   rentalRequests |-> rentalRequests, parkingOffers |-> parkingOffers,
   parkingSpaceCurrentId |-> parkingSpaceCurrentId,
   householdCurrentId |-> householdCurrentId,
   rentalCurrentId |-> rentalCurrentId,
   rentalRequestCurrentId |-> rentalRequestCurrentId,
   parkingOfferCurrentId |-> parkingOfferCurrentId]

\* Map.set(k, v)
MapSet(m, k, v) == [x \in (DOMAIN m) \cup {k} |-> IF x = k THEN v ELSE m[x]]
\* Map.delete(k)
MapDelete(m, k) == [x \in (DOMAIN m) \ {k} |-> m[x]]
\* the empty Map
EmptyMap == [x \in {} |-> Null]

\* { ...existing, ...partial }: a field of the partial that is present wins
Merge(old, new) == IF new = Absent THEN old ELSE new

\* JS truthiness of a rental's isActive
Truthy(v) == v = "true"

(***************************************************************************)
(* Storage methods shared in shape by both stores.                         *)
(***************************************************************************)
\* createActivityLog with an id counter that is never advanced: the new
\* entry takes the place of the latest one
createActivityLogSameId(st, activityType, relatedId) ==
  [st EXCEPT !.activityLogs =
     IF @ = <<>>
     THEN <<[activityType |-> activityType, relatedId |-> relatedId]>>
     ELSE [@ EXCEPT ![Len(@)] =
             [activityType |-> activityType, relatedId |-> relatedId]]]

createActivityLog(st, activityType, relatedId) ==
  [st EXCEPT !.activityLogs =
     Append(@, [activityType |-> activityType, relatedId |-> relatedId])]

getRentalsByParkingSpaceId(st, id) ==
  {r \in DOMAIN st.rentals : st.rentals[r].parkingSpaceId = id}

getRentalsByHouseholdId(st, id) ==
  {r \in DOMAIN st.rentals : st.rentals[r].householdId = id}

getParkingSpaceByNumber(st, spaceNumber) ==
  {s \in DOMAIN st.parkingSpaces :
     st.parkingSpaces[s].spaceNumber = spaceNumber}

getHouseholdByNumber(st, householdNumber) ==
  {h \in DOMAIN st.households :
     st.households[h].householdNumber = householdNumber}

getActiveRentals(st) ==
  {r \in DOMAIN st.rentals : Truthy(st.rentals[r].isActive)}

\* the spaces counted under one status
SpacesWithStatus(st, status) ==
  Cardinality({s \in DOMAIN st.parkingSpaces :
                 st.parkingSpaces[s].status = status})

getDashboardStats(st) ==
  [totalSpaces |-> Cardinality(DOMAIN st.parkingSpaces),
   occupiedSpaces |-> SpacesWithStatus(st, "OCCUPIED"),
   availableSpaces |-> SpacesWithStatus(st, "AVAILABLE"),
   maintenanceSpaces |-> SpacesWithStatus(st, "MAINTENANCE"),
   activeRentalsCount |-> Cardinality(getActiveRentals(st))]

(***************************************************************************)
(* MemStorage.                                                             *)
(***************************************************************************)
\* MemCreateParkingSpace numbering by the size of the Map
MemCreateParkingSpaceBySize(st, space) ==
  LET id == Cardinality(DOMAIN st.parkingSpaces) + 1
      newSpace == [spaceNumber |-> space.spaceNumber,
                   status |-> IF space.status = Absent THEN Undefined
                              ELSE space.status]
      st1 == [st EXCEPT !.parkingSpaceCurrentId = id + 1,
                        !.parkingSpaces = MapSet(@, id, newSpace)]
  IN [st |-> createActivityLog(st1, "SPACE_CREATED", id), ret |-> id]

MemCreateParkingSpace(st, space) ==
  LET id == st.parkingSpaceCurrentId
      newSpace == [spaceNumber |-> space.spaceNumber,
                   status |-> IF space.status = Absent THEN Undefined
                              ELSE space.status]
      st1 == [st EXCEPT !.parkingSpaceCurrentId = id + 1,
                        !.parkingSpaces = MapSet(@, id, newSpace)]
  IN [st |-> createActivityLog(st1, "SPACE_CREATED", id), ret |-> id]

\* MemUpdateParkingSpace that leaves alone a space with an active rental
MemUpdateParkingSpaceGuarded(st, id, space) ==
  IF id \notin DOMAIN st.parkingSpaces THEN [st |-> st, ret |-> Null]
  ELSE IF \E r \in getRentalsByParkingSpaceId(st, id) :
            Truthy(st.rentals[r].isActive)
  THEN [st |-> st, ret |-> Null]
  ELSE LET existingSpace == st.parkingSpaces[id]
           updatedSpace ==
             [spaceNumber |-> Merge(existingSpace.spaceNumber, space.spaceNumber),
              status |-> Merge(existingSpace.status, space.status)]
           st1 == [st EXCEPT !.parkingSpaces = MapSet(@, id, updatedSpace)]
       IN [st |-> createActivityLog(st1, "SPACE_UPDATED", id), ret |-> id]

MemUpdateParkingSpace(st, id, space) ==
  IF id \notin DOMAIN st.parkingSpaces THEN [st |-> st, ret |-> Null]
  ELSE LET existingSpace == st.parkingSpaces[id]
           updatedSpace ==
             [spaceNumber |-> Merge(existingSpace.spaceNumber, space.spaceNumber),
              status |-> Merge(existingSpace.status, space.status)]
           st1 == [st EXCEPT !.parkingSpaces = MapSet(@, id, updatedSpace)]
       IN [st |-> createActivityLog(st1, "SPACE_UPDATED", id), ret |-> id]

\* MemDeleteParkingSpace without the look at the rentals
MemDeleteParkingSpaceUnchecked(st, id) ==
  IF id \notin DOMAIN st.parkingSpaces THEN [st |-> st, ret |-> "false"]
  ELSE LET st1 == [st EXCEPT !.parkingSpaces = MapDelete(@, id)]
       IN [st |-> createActivityLog(st1, "SPACE_DELETED", Null),
           ret |-> "true"]

MemDeleteParkingSpace(st, id) ==
  IF id \notin DOMAIN st.parkingSpaces THEN [st |-> st, ret |-> "false"]
  ELSE IF \E r \in getRentalsByParkingSpaceId(st, id) :
            Truthy(st.rentals[r].isActive)
  THEN [st |-> st, ret |-> "false"]
  ELSE LET st1 == [st EXCEPT !.parkingSpaces = MapDelete(@, id)]
       IN [st |-> createActivityLog(st1, "SPACE_DELETED", Null),
           ret |-> "true"]

MemCreateHousehold(st, household) ==
  LET id == st.householdCurrentId
      st1 == [st EXCEPT !.householdCurrentId = id + 1,
                        !.households = MapSet(@, id,
                           [householdNumber |-> household.householdNumber])]
  IN [st |-> createActivityLog(st1, "HOUSEHOLD_CREATED", id), ret |-> id]

MemUpdateHousehold(st, id, household) ==
  IF id \notin DOMAIN st.households THEN [st |-> st, ret |-> Null]
  ELSE LET existingHousehold == st.households[id]
           updatedHousehold ==
             [householdNumber |-> Merge(existingHousehold.householdNumber,
                                        household.householdNumber)]
           st1 == [st EXCEPT !.households = MapSet(@, id, updatedHousehold)]
       IN [st |-> createActivityLog(st1, "HOUSEHOLD_UPDATED", id), ret |-> id]

MemDeleteHousehold(st, id) ==
  IF id \notin DOMAIN st.households THEN [st |-> st, ret |-> "false"]
  ELSE IF \E r \in getRentalsByHouseholdId(st, id) :
            Truthy(st.rentals[r].isActive)
  THEN [st |-> st, ret |-> "false"]
  ELSE LET st1 == [st EXCEPT !.households = MapDelete(@, id)]
       IN [st |-> createActivityLog(st1, "HOUSEHOLD_DELETED", Null),
           ret |-> "true"]

MemCreateRental(st, rental) ==
  LET id == st.rentalCurrentId
      newRental == [parkingSpaceId |-> rental.parkingSpaceId,
                    householdId |-> rental.householdId,
                    isActive |-> IF rental.isActive = Absent THEN Undefined
                                 ELSE rental.isActive]
      st1 == [st EXCEPT !.rentalCurrentId = id + 1,
                        !.rentals = MapSet(@, id, newRental)]
      st2 == IF rental.parkingSpaceId \in DOMAIN st1.parkingSpaces
             THEN MemUpdateParkingSpace(st1, rental.parkingSpaceId,
                    [spaceNumber |-> Absent, status |-> "OCCUPIED"]).st
             ELSE st1
  IN [st |-> createActivityLog(st2, "RENTAL_CREATED", id), ret |-> id]

MemUpdateRental(st, id, rentalUpdate) ==
  IF id \notin DOMAIN st.rentals THEN [st |-> st, ret |-> Null]
  ELSE LET existingRental == st.rentals[id]
           updatedRental ==
             [parkingSpaceId |-> IF rentalUpdate.parkingSpaceId = Null
                                 THEN existingRental.parkingSpaceId
                                 ELSE rentalUpdate.parkingSpaceId,
              householdId |-> existingRental.householdId,
              isActive |-> Merge(existingRental.isActive, rentalUpdate.isActive)]
           st1 == [st EXCEPT !.rentals = MapSet(@, id, updatedRental)]
       IN [st |-> createActivityLog(st1, "RENTAL_UPDATED", id), ret |-> id]

\* MemEndRental that removes the record instead of deactivating it
MemEndRentalDeleting(st, id) ==
  IF id \notin DOMAIN st.rentals THEN [st |-> st, ret |-> "false"]
  ELSE LET rental == st.rentals[id]
           st1 == [st EXCEPT !.rentals = MapDelete(@, id)]
           st2 == IF rental.parkingSpaceId \in DOMAIN st1.parkingSpaces
                  THEN createActivityLog(
                         MemUpdateParkingSpace(st1, rental.parkingSpaceId,
                           [spaceNumber |-> Absent, status |-> "AVAILABLE"]).st,
                         "RENTAL_ENDED", id)
                  ELSE st1
       IN [st |-> st2, ret |-> "true"]

MemEndRental(st, id) ==
  IF id \notin DOMAIN st.rentals THEN [st |-> st, ret |-> "false"]
  ELSE LET rental == st.rentals[id]
           st1 == [st EXCEPT !.rentals[id].isActive = "false"]
           st2 == IF rental.parkingSpaceId \in DOMAIN st1.parkingSpaces
                  THEN createActivityLog(
                         MemUpdateParkingSpace(st1, rental.parkingSpaceId,
                           [spaceNumber |-> Absent, status |-> "AVAILABLE"]).st,
                         "RENTAL_ENDED", id)
                  ELSE st1
       IN [st |-> st2, ret |-> "true"]

\* MemCreateRentalRequest that only spreads the request, as createRental
\* and createParkingSpace do
MemCreateRentalRequestSpreadOnly(st, request) ==
  LET id == st.rentalRequestCurrentId
      newRequest == [status |-> IF request.status = Absent THEN Undefined
                                ELSE request.status]
      st1 == [st EXCEPT !.rentalRequestCurrentId = id + 1,
                        !.rentalRequests = MapSet(@, id, newRequest)]
  IN [st |-> createActivityLog(st1, "REQUEST_CREATED", id), ret |-> id]

\* { ...request, id, status: PENDING }: the status written after the spread
\* replaces any status of the request
MemCreateRentalRequest(st, request) ==
  LET id == st.rentalRequestCurrentId
      spread == [status |-> IF request.status = Absent THEN Undefined
                            ELSE request.status]
      newRequest == [spread EXCEPT !.status = "PENDING"]
      st1 == [st EXCEPT !.rentalRequestCurrentId = id + 1,
                        !.rentalRequests = MapSet(@, id, newRequest)]
  IN [st |-> createActivityLog(st1, "REQUEST_CREATED", id), ret |-> id]

\* MemUpdateRentalRequestStatus that changes a PENDING request only
MemUpdateRentalRequestStatusFromPending(st, id, status) ==
  IF id \notin DOMAIN st.rentalRequests THEN [st |-> st, ret |-> Null]
  ELSE IF st.rentalRequests[id].status # "PENDING"
  THEN [st |-> st, ret |-> id]
  ELSE LET st1 == [st EXCEPT !.rentalRequests =
                     MapSet(@, id, [status |-> status])]
       IN [st |-> createActivityLog(st1, "REQUEST_UPDATED", id), ret |-> id]

MemUpdateRentalRequestStatus(st, id, status) ==
  IF id \notin DOMAIN st.rentalRequests THEN [st |-> st, ret |-> Null]
  ELSE LET st1 == [st EXCEPT !.rentalRequests =
                     MapSet(@, id, [status |-> status])]
       IN [st |-> createActivityLog(st1, "REQUEST_UPDATED", id), ret |-> id]

\* MemCreateParkingOffer without the update of the request
MemCreateParkingOfferNoMatch(st, offer) ==
  LET id == st.parkingOfferCurrentId
      st1 == [st EXCEPT !.parkingOfferCurrentId = id + 1,
                        !.parkingOffers = MapSet(@, id,
                           [requestId |-> offer.requestId])]
  IN [st |-> createActivityLog(st1, "OFFER_CREATED", id), ret |-> id]

MemCreateParkingOffer(st, offer) ==
  LET id == st.parkingOfferCurrentId
      st1 == [st EXCEPT !.parkingOfferCurrentId = id + 1,
                        !.parkingOffers = MapSet(@, id,
                           [requestId |-> offer.requestId])]
      st2 == IF offer.requestId \in DOMAIN st1.rentalRequests
             THEN MemUpdateRentalRequestStatus(st1, offer.requestId,
                                               "MATCHED").st
             ELSE st1
  IN [st |-> createActivityLog(st2, "OFFER_CREATED", id), ret |-> id]

(***************************************************************************)
(* DatabaseStorage.  The tables are those of generateCreateTableSQL: the   *)
(* columns status and is_active have defaults, rentals and parking_offers  *)
(* carry foreign keys.  A statement that violates a foreign key throws.    *)
(* The result of a delete or update without returning() is whatever the    *)
(* driver under drizzle hands back: resultHasCount says whether it has the *)
(* count property that the methods read.  db is typed any, so the read     *)
(* compiles either way; the result of node-postgres, the driver of db.ts,  *)
(* names the number of rows rowCount.                                      *)
(***************************************************************************)
\* what an entity-returning method yields when a statement throws
Throws == -1

\* result.count > 0, for a statement that affected the given number of rows:
\* undefined > 0 is false
ResultCountPositive(affected) == resultHasCount /\ affected > 0

DbCreateParkingSpace(st, space) ==
  LET id == st.parkingSpaceCurrentId
      newSpace == [spaceNumber |-> space.spaceNumber,
                   status |-> IF space.status = Absent THEN "AVAILABLE"
                              ELSE space.status]
      st1 == [st EXCEPT !.parkingSpaceCurrentId = id + 1,
                        !.parkingSpaces = MapSet(@, id, newSpace)]
  IN [st |-> createActivityLog(st1, "SPACE_CREATED", id), ret |-> id]

DbUpdateParkingSpace(st, id, space) ==
  IF id \notin DOMAIN st.parkingSpaces THEN [st |-> st, ret |-> Null]
  ELSE LET row == st.parkingSpaces[id]
           updatedSpace ==
             [spaceNumber |-> Merge(row.spaceNumber, space.spaceNumber),
              status |-> Merge(row.status, space.status)]
           st1 == [st EXCEPT !.parkingSpaces = MapSet(@, id, updatedSpace)]
       IN [st |-> createActivityLog(st1, "SPACE_UPDATED", id), ret |-> id]

DbDeleteParkingSpace(st, id) ==
  IF id \notin DOMAIN st.parkingSpaces THEN [st |-> st, ret |-> "false"]
  ELSE IF \E r \in getRentalsByParkingSpaceId(st, id) :
            Truthy(st.rentals[r].isActive)
  THEN [st |-> st, ret |-> "false"]
  ELSE IF getRentalsByParkingSpaceId(st, id) # {}
  THEN [st |-> st, ret |-> "throws"]
  ELSE LET st1 == [st EXCEPT !.parkingSpaces = MapDelete(@, id)]
       IN IF ResultCountPositive(1)
          THEN [st |-> createActivityLog(st1, "SPACE_DELETED", Null),
                ret |-> "true"]
          ELSE [st |-> st1, ret |-> "false"]

DbCreateHousehold(st, household) ==
  LET id == st.householdCurrentId
      st1 == [st EXCEPT !.householdCurrentId = id + 1,
                        !.households = MapSet(@, id,
                           [householdNumber |-> household.householdNumber])]
  IN [st |-> createActivityLog(st1, "HOUSEHOLD_CREATED", id), ret |-> id]

DbUpdateHousehold(st, id, household) ==
  IF id \notin DOMAIN st.households THEN [st |-> st, ret |-> Null]
  ELSE LET row == st.households[id]
           updatedHousehold ==
             [householdNumber |-> Merge(row.householdNumber,
                                        household.householdNumber)]
           st1 == [st EXCEPT !.households = MapSet(@, id, updatedHousehold)]
       IN [st |-> createActivityLog(st1, "HOUSEHOLD_UPDATED", id), ret |-> id]

DbDeleteHousehold(st, id) ==
  IF id \notin DOMAIN st.households THEN [st |-> st, ret |-> "false"]
  ELSE IF \E r \in getRentalsByHouseholdId(st, id) :
            Truthy(st.rentals[r].isActive)
  THEN [st |-> st, ret |-> "false"]
  ELSE IF getRentalsByHouseholdId(st, id) # {}
  THEN [st |-> st, ret |-> "throws"]
  ELSE LET st1 == [st EXCEPT !.households = MapDelete(@, id)]
       IN IF ResultCountPositive(1)
          THEN [st |-> createActivityLog(st1, "HOUSEHOLD_DELETED", Null),
                ret |-> "true"]
          ELSE [st |-> st1, ret |-> "false"]

\* DbInsertRental on a column is_active that has no default
DbInsertRentalNoDefault(st, rental) ==
  LET id == st.rentalCurrentId
      row == [parkingSpaceId |-> rental.parkingSpaceId,
              householdId |-> rental.householdId,
              isActive |-> IF rental.isActive = Absent THEN Undefined
                           ELSE rental.isActive]
  IN IF rental.parkingSpaceId \in DOMAIN st.parkingSpaces
        /\ rental.householdId \in DOMAIN st.households
     THEN [st |-> [st EXCEPT !.rentalCurrentId = id + 1,
                             !.rentals = MapSet(@, id, row)],
           ret |-> id]
     ELSE [st |-> [st EXCEPT !.rentalCurrentId = id + 1], ret |-> Throws]

\* db.insert(schema.rentals).values(rental).returning()
DbInsertRental(st, rental) ==
  LET id == st.rentalCurrentId
      row == [parkingSpaceId |-> rental.parkingSpaceId,
              householdId |-> rental.householdId,
              isActive |-> IF rental.isActive = Absent THEN "true"
                           ELSE rental.isActive]
  IN IF rental.parkingSpaceId \in DOMAIN st.parkingSpaces
        /\ rental.householdId \in DOMAIN st.households
     THEN [st |-> [st EXCEPT !.rentalCurrentId = id + 1,
                             !.rentals = MapSet(@, id, row)],
           ret |-> id]
     ELSE [st |-> [st EXCEPT !.rentalCurrentId = id + 1], ret |-> Throws]

\* db.update(schema.parkingSpaces).set({ status }).where(eq(id))
DbSetSpaceStatus(st, id, status) ==
  IF id \in DOMAIN st.parkingSpaces
  THEN [st EXCEPT !.parkingSpaces[id].status = status]
  ELSE st

DbCreateRental(st, rental) ==
  LET ins == DbInsertRental(st, rental)
  IN IF ins.ret = Throws THEN ins
     ELSE [st |-> createActivityLog(
                    DbSetSpaceStatus(ins.st, rental.parkingSpaceId, "OCCUPIED"),
                    "RENTAL_CREATED", ins.ret),
           ret |-> ins.ret]

DbUpdateRental(st, id, rentalUpdate) ==
  IF id \notin DOMAIN st.rentals THEN [st |-> st, ret |-> Null]
  ELSE IF rentalUpdate.parkingSpaceId # Null
          /\ rentalUpdate.parkingSpaceId \notin DOMAIN st.parkingSpaces
  THEN [st |-> st, ret |-> Throws]
  ELSE LET row == st.rentals[id]
           updatedRental ==
             [parkingSpaceId |-> IF rentalUpdate.parkingSpaceId = Null
                                 THEN row.parkingSpaceId
                                 ELSE rentalUpdate.parkingSpaceId,
              householdId |-> row.householdId,
              isActive |-> Merge(row.isActive, rentalUpdate.isActive)]
           st1 == [st EXCEPT !.rentals = MapSet(@, id, updatedRental)]
       IN [st |-> createActivityLog(st1, "RENTAL_UPDATED", id), ret |-> id]

DbEndRental(st, id) ==
  IF id \notin DOMAIN st.rentals \/ ~Truthy(st.rentals[id].isActive)
  THEN [st |-> st, ret |-> "false"]
  ELSE LET rental == st.rentals[id]
           st1 == [st EXCEPT !.rentals[id].isActive = "false"]
           st2 == DbSetSpaceStatus(st1, rental.parkingSpaceId, "AVAILABLE")
       IN IF ResultCountPositive(1)
          THEN [st |-> createActivityLog(st2, "RENTAL_ENDED", id),
                ret |-> "true"]
          ELSE [st |-> st2, ret |-> "false"]

\* DbCreateRentalRequest that also holds back the AVAILABLE spaces for the
\* request
DbCreateRentalRequestHoldingSpaces(st, request) ==
  LET id == st.rentalRequestCurrentId
      st1 == [st EXCEPT !.rentalRequestCurrentId = id + 1,
                        !.rentalRequests = MapSet(@, id, [status |-> "PENDING"]),
                        !.parkingSpaces =
                           [p \in DOMAIN @ |->
                              IF @[p].status = "AVAILABLE"
                              THEN [@[p] EXCEPT !.status = "MAINTENANCE"]
                              ELSE @[p]]]
  IN [st |-> createActivityLog(st1, "REQUEST_CREATED", id), ret |-> id]

\* values({ ...request, status: PENDING })
DbCreateRentalRequest(st, request) ==
  LET id == st.rentalRequestCurrentId
      spread == [status |-> IF request.status = Absent THEN "PENDING"
                            ELSE request.status]
      newRequest == [spread EXCEPT !.status = "PENDING"]
      st1 == [st EXCEPT !.rentalRequestCurrentId = id + 1,
                        !.rentalRequests = MapSet(@, id, newRequest)]
  IN [st |-> createActivityLog(st1, "REQUEST_CREATED", id), ret |-> id]

DbUpdateRentalRequestStatus(st, id, status) ==
  IF id \notin DOMAIN st.rentalRequests THEN [st |-> st, ret |-> Null]
  ELSE LET st1 == [st EXCEPT !.rentalRequests =
                     MapSet(@, id, [status |-> status])]
       IN [st |-> createActivityLog(st1, "REQUEST_UPDATED", id), ret |-> id]

\* db.insert(parkingOffers): request_id is a foreign key
DbInsertParkingOffer(st, offer) ==
  LET id == st.parkingOfferCurrentId
  IN IF offer.requestId \notin DOMAIN st.rentalRequests
     THEN [st |-> [st EXCEPT !.parkingOfferCurrentId = id + 1], ret |-> Throws]
     ELSE [st |-> [st EXCEPT !.parkingOfferCurrentId = id + 1,
                             !.parkingOffers = MapSet(@, id,
                                [requestId |-> offer.requestId])],
           ret |-> id]

\* db.update(rentalRequests).set({ status }).where(id): no row, no change
DbSetRequestStatus(st, id, status) ==
  IF id \notin DOMAIN st.rentalRequests THEN st
  ELSE [st EXCEPT !.rentalRequests[id].status = status]

DbCreateParkingOffer(st, offer) ==
  IF offer.requestId \notin DOMAIN st.rentalRequests
  THEN [st |-> st, ret |-> Throws]
  ELSE LET ins == DbInsertParkingOffer(st, offer)
           st1 == DbSetRequestStatus(ins.st, offer.requestId, "MATCHED")
       IN [st |-> createActivityLog(st1, "OFFER_CREATED", ins.ret),
           ret |-> ins.ret]

(***************************************************************************)
(* export const storage: the store chosen when the process starts.         *)
(***************************************************************************)
createParkingSpace(st, space) ==
  IF backend = "mem" THEN MemCreateParkingSpace(st, space)
  ELSE DbCreateParkingSpace(st, space)
updateParkingSpace(st, id, space) ==
  IF backend = "mem" THEN MemUpdateParkingSpace(st, id, space)
  ELSE DbUpdateParkingSpace(st, id, space)
deleteParkingSpace(st, id) ==
  IF backend = "mem" THEN MemDeleteParkingSpace(st, id)
  ELSE DbDeleteParkingSpace(st, id)
createHousehold(st, household) ==
  IF backend = "mem" THEN MemCreateHousehold(st, household)
  ELSE DbCreateHousehold(st, household)
updateHousehold(st, id, household) ==
  IF backend = "mem" THEN MemUpdateHousehold(st, id, household)
  ELSE DbUpdateHousehold(st, id, household)
deleteHousehold(st, id) ==
  IF backend = "mem" THEN MemDeleteHousehold(st, id)
  ELSE DbDeleteHousehold(st, id)
createRental(st, rental) ==
  IF backend = "mem" THEN MemCreateRental(st, rental)
  ELSE DbCreateRental(st, rental)
updateRental(st, id, rentalUpdate) ==
  IF backend = "mem" THEN MemUpdateRental(st, id, rentalUpdate)
  ELSE DbUpdateRental(st, id, rentalUpdate)
endRental(st, id) ==
  IF backend = "mem" THEN MemEndRental(st, id) ELSE DbEndRental(st, id)
createRentalRequest(st, request) ==
  IF backend = "mem" THEN MemCreateRentalRequest(st, request)
  ELSE DbCreateRentalRequest(st, request)
updateRentalRequestStatus(st, id, status) ==
  IF backend = "mem" THEN MemUpdateRentalRequestStatus(st, id, status)
  ELSE DbUpdateRentalRequestStatus(st, id, status)
createParkingOffer(st, offer) ==
  IF backend = "mem" THEN MemCreateParkingOffer(st, offer)
  ELSE DbCreateParkingOffer(st, offer)

(***************************************************************************)
(* The state after construction.  MemStorage.initializeData creates the    *)
(* seed spaces (all AVAILABLE) and households through createParkingSpace   *)
(* and createHousehold, so the log starts with their entries.  The         *)
(* relational store starts from the same rows, persisted by an earlier run.*)
(* MemStorage sends no statement: resultHasCount is of no effect there.    *)
(***************************************************************************)
SeedSpaceNumbers == <<"A-01", "A-02", "A-03">>
SeedHouseholdNumbers == <<"1201", "1502", "1503">>

EmptyStore ==
  [parkingSpaces |-> EmptyMap, households |-> EmptyMap, rentals |-> EmptyMap,
   activityLogs |-> <<>>, rentalRequests |-> EmptyMap,
   parkingOffers |-> EmptyMap, parkingSpaceCurrentId |-> 1,
   householdCurrentId |-> 1, rentalCurrentId |-> 1,
   rentalRequestCurrentId |-> 1, parkingOfferCurrentId |-> 1]

RECURSIVE SeedSpaces(_, _)
SeedSpaces(st, n) ==
  IF n = 0 THEN st
  ELSE MemCreateParkingSpace(SeedSpaces(st, n - 1),
         [spaceNumber |-> SeedSpaceNumbers[n], status |-> "AVAILABLE"]).st

RECURSIVE SeedHouseholds(_, _)
SeedHouseholds(st, n) ==
  IF n = 0 THEN st
  ELSE MemCreateHousehold(SeedHouseholds(st, n - 1),
         [householdNumber |-> SeedHouseholdNumbers[n]]).st

initializeData ==
  SeedHouseholds(SeedSpaces(EmptyStore, InitSpaces), InitHouseholds)

Procs == {1, 2}

NoResp == [op |-> "none", code |-> 0, err |-> "none", ret |-> "none",
           arg |-> 0, id |-> 0]
NoReq == [parkingSpaceId |-> Null, householdId |-> Null, isActive |-> Absent,
          requestId |-> Null, id |-> Null, code |-> 0]

SetStore(st) ==
  /\ parkingSpaces' = st.parkingSpaces
  /\ households' = st.households
  /\ rentals' = st.rentals
  /\ activityLogs' = st.activityLogs
  /\ rentalRequests' = st.rentalRequests
  /\ parkingOffers' = st.parkingOffers
  /\ parkingSpaceCurrentId' = st.parkingSpaceCurrentId
  /\ householdCurrentId' = st.householdCurrentId
  /\ rentalCurrentId' = st.rentalCurrentId
  /\ rentalRequestCurrentId' = st.rentalRequestCurrentId
  /\ parkingOfferCurrentId' = st.parkingOfferCurrentId

InitStore ==
  /\ backend \in {"mem", "db"}
  /\ resultHasCount \in IF backend = "mem" THEN {FALSE} ELSE BOOLEAN
  /\ parkingSpaces = initializeData.parkingSpaces
  /\ households = initializeData.households
  /\ rentals = initializeData.rentals
  /\ activityLogs = initializeData.activityLogs
  /\ rentalRequests = initializeData.rentalRequests
  /\ parkingOffers = initializeData.parkingOffers
  /\ parkingSpaceCurrentId = initializeData.parkingSpaceCurrentId
  /\ householdCurrentId = initializeData.householdCurrentId
  /\ rentalCurrentId = initializeData.rentalCurrentId
  /\ rentalRequestCurrentId = initializeData.rentalRequestCurrentId
  /\ parkingOfferCurrentId = initializeData.parkingOfferCurrentId
  /\ resp = NoResp
  /\ pc = [p \in Procs |-> "idle"]
  /\ req = [p \in Procs |-> NoReq]

Init ==
  /\ InitStore
  /\ budget = MaxServed

\* the part of the state space explored
Bounded(st) ==
  /\ st.parkingSpaceCurrentId <= MaxSpaces + 1
  /\ st.householdCurrentId <= MaxHouseholds + 1
  /\ st.rentalCurrentId <= MaxRentals + 1
  /\ st.rentalRequestCurrentId <= MaxRequests + 1
  /\ st.parkingOfferCurrentId <= MaxOffers + 1

\* a handler's outcome becomes the next state
Respond(out) ==
  /\ Bounded(out.st)
  /\ SetStore(out.st)
  /\ resp' = out.resp
  /\ budget' = budget - 1
  /\ UNCHANGED <<backend, resultHasCount, pc, req>>

R(op, code, err, ret, arg, id) ==
  [op |-> op, code |-> code, err |-> err, ret |-> ret, arg |-> arg, id |-> id]

(***************************************************************************)
(* The handlers of registerRoutes, each as the outcome                     *)
(* [st |-> store after, resp |-> response] of one request.  valid is the   *)
(* verdict of validateRequest on the fields of the body not modelled here. *)
(***************************************************************************)
postParkingSpace(st, valid, body) ==
  IF ~valid
  THEN [st |-> st, resp |-> R("postParkingSpace", 400, "validation", "none", 0, 0)]
  ELSE IF getParkingSpaceByNumber(st, body.spaceNumber) # {}
  THEN [st |-> st, resp |-> R("postParkingSpace", 400, "business", "none", 0, 0)]
  ELSE LET c == createParkingSpace(st, body)
       IN [st |-> c.st,
           resp |-> R("postParkingSpace", 201, "none", "entity", 0, c.ret)]

putParkingSpace(st, id, body) ==
  LET u == updateParkingSpace(st, id, body)
  IN IF u.ret = Null
     THEN [st |-> u.st, resp |-> R("putParkingSpace", 404, "notfound", "undefined", id, 0)]
     ELSE [st |-> u.st, resp |-> R("putParkingSpace", 200, "none", "entity", id, id)]

deleteParkingSpaceRoute(st, id) ==
  LET d == deleteParkingSpace(st, id)
  IN IF d.ret = "throws"
     THEN [st |-> d.st, resp |-> R("deleteParkingSpace", 500, "error", d.ret, id, 0)]
     ELSE IF d.ret = "false"
     THEN [st |-> d.st, resp |-> R("deleteParkingSpace", 404, "notfound", d.ret, id, 0)]
     ELSE [st |-> d.st, resp |-> R("deleteParkingSpace", 204, "none", d.ret, id, 0)]

postHousehold(st, valid, body) ==
  IF ~valid
  THEN [st |-> st, resp |-> R("postHousehold", 400, "validation", "none", 0, 0)]
  ELSE IF getHouseholdByNumber(st, body.householdNumber) # {}
  THEN [st |-> st, resp |-> R("postHousehold", 400, "business", "none", 0, 0)]
  ELSE LET c == createHousehold(st, body)
       IN [st |-> c.st,
           resp |-> R("postHousehold", 201, "none", "entity", 0, c.ret)]

putHousehold(st, id, body) ==
  LET u == updateHousehold(st, id, body)
  IN IF u.ret = Null
     THEN [st |-> u.st, resp |-> R("putHousehold", 404, "notfound", "undefined", id, 0)]
     ELSE [st |-> u.st, resp |-> R("putHousehold", 200, "none", "entity", id, id)]

deleteHouseholdRoute(st, id) ==
  LET d == deleteHousehold(st, id)
  IN IF d.ret = "throws"
     THEN [st |-> d.st, resp |-> R("deleteHousehold", 500, "error", d.ret, id, 0)]
     ELSE IF d.ret = "false"
     THEN [st |-> d.st, resp |-> R("deleteHousehold", 404, "notfound", d.ret, id, 0)]
     ELSE [st |-> d.st, resp |-> R("deleteHousehold", 204, "none", d.ret, id, 0)]

\* postRental refusing only an OCCUPIED space
postRentalOccupiedOnly(st, valid, body) ==
  IF ~valid
  THEN [st |-> st,
        resp |-> R("postRental", 400, "validation", "none", 0, 0)]
  ELSE IF body.parkingSpaceId \notin DOMAIN st.parkingSpaces
  THEN [st |-> st,
        resp |-> R("postRental", 400, "business", "none", body.parkingSpaceId, 0)]
  ELSE IF st.parkingSpaces[body.parkingSpaceId].status = "OCCUPIED"
  THEN [st |-> st,
        resp |-> R("postRental", 400, "business", "none", body.parkingSpaceId, 0)]
  ELSE IF body.householdId \notin DOMAIN st.households
  THEN [st |-> st,
        resp |-> R("postRental", 400, "business", "none", body.parkingSpaceId, 0)]
  ELSE LET c == createRental(st, body)
       IN [st |-> c.st,
           resp |-> R("postRental", 201, "none", "entity",
                      body.parkingSpaceId, c.ret)]

postRental(st, valid, body) ==
  IF ~valid
  THEN [st |-> st,
        resp |-> R("postRental", 400, "validation", "none", 0, 0)]
  ELSE IF body.parkingSpaceId \notin DOMAIN st.parkingSpaces
  THEN [st |-> st,
        resp |-> R("postRental", 400, "business", "none", body.parkingSpaceId, 0)]
  ELSE IF st.parkingSpaces[body.parkingSpaceId].status # "AVAILABLE"
  THEN [st |-> st,
        resp |-> R("postRental", 400, "business", "none", body.parkingSpaceId, 0)]
  ELSE IF body.householdId \notin DOMAIN st.households
  THEN [st |-> st,
        resp |-> R("postRental", 400, "business", "none", body.parkingSpaceId, 0)]
  ELSE LET c == createRental(st, body)
       IN IF c.ret = Throws
          THEN [st |-> c.st,
                resp |-> R("postRental", 500, "error", "throws", body.parkingSpaceId, 0)]
          ELSE [st |-> c.st,
                resp |-> R("postRental", 201, "none", "entity",
                           body.parkingSpaceId, c.ret)]

putRental(st, id, body) ==
  LET u == updateRental(st, id, body)
  IN IF u.ret = Throws
     THEN [st |-> u.st, resp |-> R("putRental", 500, "error", "throws", id, 0)]
     ELSE IF u.ret = Null
     THEN [st |-> u.st, resp |-> R("putRental", 404, "notfound", "undefined", id, 0)]
     ELSE [st |-> u.st, resp |-> R("putRental", 200, "none", "entity", id, id)]

endRentalRoute(st, id) ==
  LET e == endRental(st, id)
  IN IF e.ret = "false"
     THEN [st |-> e.st, resp |-> R("endRental", 404, "notfound", e.ret, id, 0)]
     ELSE [st |-> e.st, resp |-> R("endRental", 200, "none", e.ret, id, id)]

\* schema.parse of a z.object keeps the declared keys only:
\* rentalRequestFormSchema declares no status
ParseRentalRequest(body) == [body EXCEPT !.status = Absent]

postRentalRequest(st, valid, body) ==
  IF ~valid
  THEN [st |-> st, resp |-> R("postRentalRequest", 400, "validation", "none", 0, 0)]
  ELSE LET c == createRentalRequest(st, ParseRentalRequest(body))
       IN [st |-> c.st,
           resp |-> R("postRentalRequest", 201, "none", "entity", 0, c.ret)]

putRentalRequestStatus(st, id, status) ==
  IF status \notin REQUEST_STATUS
  THEN [st |-> st,
        resp |-> R("putRentalRequestStatus", 400, "business", "none", id, 0)]
  ELSE LET u == updateRentalRequestStatus(st, id, status)
       IN IF u.ret = Null
          THEN [st |-> u.st,
                resp |-> R("putRentalRequestStatus", 404, "notfound", "undefined", id, 0)]
          ELSE [st |-> u.st,
                resp |-> R("putRentalRequestStatus", 200, "none", "entity", id, id)]

\* postParkingOffer checking only that the request exists
postParkingOfferAnyStatus(st, valid, requestId) ==
  IF ~valid
  THEN [st |-> st,
        resp |-> R("postParkingOffer", 400, "validation", "none", 0, 0)]
  ELSE IF requestId \notin DOMAIN st.rentalRequests
  THEN [st |-> st,
        resp |-> R("postParkingOffer", 404, "notfound", "none", requestId, 0)]
  ELSE LET c == createParkingOffer(st, [requestId |-> requestId])
       IN [st |-> c.st,
           resp |-> R("postParkingOffer", 201, "none", "entity", requestId, c.ret)]

postParkingOffer(st, valid, requestId) ==
  IF ~valid
  THEN [st |-> st,
        resp |-> R("postParkingOffer", 400, "validation", "none", 0, 0)]
  ELSE IF requestId \notin DOMAIN st.rentalRequests
  THEN [st |-> st,
        resp |-> R("postParkingOffer", 404, "notfound", "none", requestId, 0)]
  ELSE IF st.rentalRequests[requestId].status # "PENDING"
  THEN [st |-> st,
        resp |-> R("postParkingOffer", 400, "business", "none", requestId, 0)]
  ELSE LET c == createParkingOffer(st, [requestId |-> requestId])
       IN IF c.ret = Throws
          THEN [st |-> c.st,
                resp |-> R("postParkingOffer", 500, "error", "throws", requestId, 0)]
          ELSE [st |-> c.st,
                resp |-> R("postParkingOffer", 201, "none", "entity", requestId, c.ret)]

(***************************************************************************)
(* One request at a time.                                                  *)
(***************************************************************************)
SpaceIds == 1..MaxSpaces
HouseholdIds == 1..MaxHouseholds
RentalIds == 1..MaxRentals
RequestIds == 1..MaxRequests

\* bodies of POST /api/parking-spaces: status is optional
StatusInputs == {Absent, "AVAILABLE", "MAINTENANCE"}
\* bodies of PUT /api/parking-spaces/:id: req.body is passed on unvalidated,
\* so status is any string
SpaceUpdates ==
  {[spaceNumber |-> Absent, status |-> s] : s \in SPACE_STATUS \cup {"CLOSED"}}
  \cup {[spaceNumber |-> n, status |-> Absent] : n \in SpaceNumbers}
\* bodies of PUT /api/rentals/:id
RentalUpdates ==
  {[parkingSpaceId |-> Null, isActive |-> a] : a \in {"true", "false"}}
  \cup {[parkingSpaceId |-> s, isActive |-> Absent] : s \in SpaceIds}

PostParkingSpace ==
  /\ budget > 0
  /\ \E valid \in BOOLEAN, n \in SpaceNumbers, s \in StatusInputs :
       Respond(postParkingSpace(Store, valid, [spaceNumber |-> n, status |-> s]))

PutParkingSpace ==
  /\ budget > 0
  /\ \E id \in SpaceIds, body \in SpaceUpdates :
       Respond(putParkingSpace(Store, id, body))

DeleteParkingSpace ==
  /\ budget > 0
  /\ \E id \in SpaceIds : Respond(deleteParkingSpaceRoute(Store, id))

PostHousehold ==
  /\ budget > 0
  /\ \E valid \in BOOLEAN, n \in HouseholdNumbers :
       Respond(postHousehold(Store, valid, [householdNumber |-> n]))

PutHousehold ==
  /\ budget > 0
  /\ \E id \in HouseholdIds, n \in HouseholdNumbers :
       Respond(putHousehold(Store, id, [householdNumber |-> n]))

DeleteHousehold ==
  /\ budget > 0
  /\ \E id \in HouseholdIds : Respond(deleteHouseholdRoute(Store, id))

PostRental ==
  /\ budget > 0
  /\ \E valid \in BOOLEAN, s \in SpaceIds, h \in HouseholdIds,
        a \in {Absent, "true", "false"} :
       Respond(postRental(Store, valid,
                 [parkingSpaceId |-> s, householdId |-> h, isActive |-> a]))

PutRental ==
  /\ budget > 0
  /\ \E id \in RentalIds, body \in RentalUpdates :
       Respond(putRental(Store, id, body))

EndRental ==
  /\ budget > 0
  /\ \E id \in RentalIds : Respond(endRentalRoute(Store, id))


PostRentalRequest ==
  /\ budget > 0
  /\ \E valid \in BOOLEAN, s \in {Absent} \cup REQUEST_STATUS :
       Respond(postRentalRequest(Store, valid, [status |-> s]))


PutRentalRequestStatus ==
  /\ budget > 0
  /\ \E id \in RequestIds, s \in REQUEST_STATUS \cup {"BOGUS"} :
       Respond(putRentalRequestStatus(Store, id, s))

PostParkingOffer ==
  /\ budget > 0
  /\ \E valid \in BOOLEAN, id \in RequestIds :
       Respond(postParkingOffer(Store, valid, id))

Next ==
  \/ PostParkingSpace
  \/ PutParkingSpace
  \/ DeleteParkingSpace
  \/ PostHousehold
  \/ PutHousehold
  \/ DeleteHousehold
  \/ PostRental
  \/ PutRental
  \/ EndRental
  \/ PostRentalRequest
  \/ PutRentalRequestStatus
  \/ PostParkingOffer

Spec == Init /\ [][Next]_vars

(***************************************************************************)
(* The rental lifecycle alone: create, update and end a rental; create,    *)
(* update and delete a parking space.                                      *)
(***************************************************************************)
InitRental ==
  /\ InitStore
  /\ budget = MaxRentalServed

NextRental ==
  \/ PostParkingSpace
  \/ PutParkingSpace
  \/ DeleteParkingSpace
  \/ PostRental
  \/ PutRental
  \/ EndRental

SpecRental == InitRental /\ [][NextRental]_vars

(***************************************************************************)
(* Rentals created and ended, and nothing else.                            *)
(***************************************************************************)
InitLifecycle ==
  /\ InitStore
  /\ budget = MaxLifecycleServed

NextLifecycle ==
  \/ PostRental
  \/ EndRental

SpecLifecycle == InitLifecycle /\ [][NextLifecycle]_vars

(***************************************************************************)
(* The request/offer flow alone.                                           *)
(***************************************************************************)
InitOffer ==
  /\ InitStore
  /\ budget = MaxOfferServed

NextOffer ==
  \/ PostRentalRequest
  \/ PutRentalRequestStatus
  \/ PostParkingOffer

SpecOffer == InitOffer /\ [][NextOffer]_vars

(***************************************************************************)
(* Two POST /api/rentals requests against the relational store.  Every     *)
(* await of the handler and of DatabaseStorage.createRental is a statement *)
(* sent to the connection pool, so the requests interleave between         *)
(* statements; a statement may also throw, which the handler answers 500.  *)
(* req[p] is the validated body of request p, the id of the row it         *)
(* inserted and the status code it was answered with.                      *)
(***************************************************************************)
ConcStep(p, st, next, r) ==
  /\ SetStore(st)
  /\ pc' = [pc EXCEPT ![p] = next]
  /\ req' = [req EXCEPT ![p] = r]
  /\ UNCHANGED <<backend, resultHasCount, resp, budget>>

\* validateRequest(rentalFormSchema) accepted the body
RentalReceive(p) ==
  /\ pc[p] = "idle"
  /\ \E s \in SpaceIds, h \in HouseholdIds, a \in {Absent, "true", "false"} :
       ConcStep(p, Store, "getSpace",
                [NoReq EXCEPT !.parkingSpaceId = s, !.householdId = h,
                              !.isActive = a])

\* storage.getParkingSpaceById and the two checks on its result
RentalGetSpace(p) ==
  /\ pc[p] = "getSpace"
  /\ IF req[p].parkingSpaceId \notin DOMAIN parkingSpaces
     THEN ConcStep(p, Store, "done", [req[p] EXCEPT !.code = 400])
     ELSE IF parkingSpaces[req[p].parkingSpaceId].status # "AVAILABLE"
     THEN ConcStep(p, Store, "done", [req[p] EXCEPT !.code = 400])
     ELSE ConcStep(p, Store, "getHousehold", req[p])

\* storage.getHouseholdById and the check on its result
RentalGetHousehold(p) ==
  /\ pc[p] = "getHousehold"
  /\ IF req[p].householdId \notin DOMAIN households
     THEN ConcStep(p, Store, "done", [req[p] EXCEPT !.code = 400])
     ELSE ConcStep(p, Store, "insert", req[p])

\* transaction(): db.insert(schema.rentals)
RentalInsert(p) ==
  /\ pc[p] = "insert"
  /\ LET ins == DbInsertRental(Store, req[p])
     IN IF ins.ret = Throws
        THEN ConcStep(p, ins.st, "done", [req[p] EXCEPT !.code = 500])
        ELSE ConcStep(p, ins.st, "setStatus", [req[p] EXCEPT !.id = ins.ret])

\* transaction(): db.update(schema.parkingSpaces)
RentalSetStatus(p) ==
  /\ pc[p] = "setStatus"
  /\ ConcStep(p, DbSetSpaceStatus(Store, req[p].parkingSpaceId, "OCCUPIED"),
              "log", req[p])

\* createActivityLog and res.status(201)
RentalLog(p) ==
  /\ pc[p] = "log"
  /\ ConcStep(p, createActivityLog(Store, "RENTAL_CREATED", req[p].id),
              "done", [req[p] EXCEPT !.code = 201])

\* the statement the request is waiting for throws: catch, res.status(500)
RentalFail(p) ==
  /\ pc[p] \in {"getSpace", "getHousehold", "insert", "setStatus", "log"}
  /\ ConcStep(p, Store, "done", [req[p] EXCEPT !.code = 500])

InitConc ==
  /\ InitStore
  /\ backend = "db"
  /\ budget = 0

NextConc ==
  \E p \in Procs :
    \/ RentalReceive(p)
    \/ RentalGetSpace(p)
    \/ RentalGetHousehold(p)
    \/ RentalInsert(p)
    \/ RentalSetStatus(p)
    \/ RentalLog(p)
    \/ RentalFail(p)

SpecConc == InitConc /\ [][NextConc]_vars

(***************************************************************************)
(* GET /api/rentals/expiring.  An instant is a number of ticks, TicksPerDay *)
(* to the day; tick 0 of a day is its midnight.  The rentals of the other  *)
(* specifications carry no endDate, so the query is run on stores drawn    *)
(* from the rows a store can hold: MemStorage keeps the Date that          *)
(* z.coerce.date() made of the body (any instant), the date column of the  *)
(* relational store keeps the day (its midnight).                          *)
(***************************************************************************)
\* the calendar day of an instant
DayOf(t) == t \div TicksPerDay

\* thresholdDate.setDate(today.getDate() + daysThreshold)
ThresholdDate(today, daysThreshold) == today + daysThreshold * TicksPerDay

MemGetExpiringRentals(st, daysThreshold, today) ==
  {r \in DOMAIN st.rentals :
     /\ Truthy(st.rentals[r].isActive)
     /\ st.rentals[r].endDate <= ThresholdDate(today, daysThreshold)
     /\ st.rentals[r].endDate >= today}

DbGetExpiringRentals(st, daysThreshold, today) ==
  {r \in DOMAIN st.rentals :
     /\ st.rentals[r].isActive = "true"
     /\ st.rentals[r].endDate <= ThresholdDate(today, daysThreshold)
     /\ st.rentals[r].endDate >= today}

getExpiringRentals(st, daysThreshold, today) ==
  IF backend = "mem" THEN MemGetExpiringRentals(st, daysThreshold, today)
  ELSE DbGetExpiringRentals(st, daysThreshold, today)

\* parseInt(req.query.days) || 7: days is what parseInt yields, 0 standing
\* also for the NaN of a missing or unreadable parameter (both are falsy)
DefaultDaysThreshold == 7

getExpiringRentalsRoute(st, days, today) ==
  LET daysThreshold == IF days = 0 THEN DefaultDaysThreshold ELSE days
  IN [st |-> st,
      resp |-> R("getExpiringRentals", 200, "none",
                 getExpiringRentals(st, daysThreshold, today),
                 [daysThreshold |-> daysThreshold, today |-> today], 0)]

Instants == 0..(MaxDay * TicksPerDay + TicksPerDay - 1)
Midnights == {d * TicksPerDay : d \in 0..MaxDay}

\* the rental rows a store can hold
RentalRows(b) ==
  [parkingSpaceId : {1}, householdId : {1},
   isActive : IF b = "mem" THEN {"true", "false", Undefined}
              ELSE {"true", "false"},
   endDate : IF b = "mem" THEN Instants ELSE Midnights]

GetExpiringRentals ==
  /\ budget > 0
  /\ \E days \in 0..MaxThreshold, today \in Instants :
       Respond(getExpiringRentalsRoute(Store, days, today))

InitExpiring ==
  /\ backend \in {"mem", "db"}
  /\ resultHasCount \in IF backend = "mem" THEN {FALSE} ELSE BOOLEAN
  /\ \E n \in 0..MaxRentals :
       /\ rentals \in [1..n -> RentalRows(backend)]
       /\ rentalCurrentId = n + 1
  /\ parkingSpaces = initializeData.parkingSpaces
  /\ households = initializeData.households
  /\ activityLogs = initializeData.activityLogs
  /\ rentalRequests = initializeData.rentalRequests
  /\ parkingOffers = initializeData.parkingOffers
  /\ parkingSpaceCurrentId = initializeData.parkingSpaceCurrentId
  /\ householdCurrentId = initializeData.householdCurrentId
  /\ rentalRequestCurrentId = initializeData.rentalRequestCurrentId
  /\ parkingOfferCurrentId = initializeData.parkingOfferCurrentId
  /\ resp = NoResp
  /\ pc = [p \in Procs |-> "idle"]
  /\ req = [p \in Procs |-> NoReq]
  /\ budget = MaxExpiringServed

NextExpiring == GetExpiringRentals

SpecExpiring == InitExpiring /\ [][NextExpiring]_vars

(***************************************************************************)
(* Two POST /api/rental-requests/:requestId/offers requests against the    *)
(* relational store, one statement at a time, while requests are created   *)
(* and their status is set by other callers.                               *)
(***************************************************************************)
\* validateRequest(parkingOfferFormSchema) accepted the body
OfferReceive(p) ==
  /\ pc[p] = "idle"
  /\ \E id \in RequestIds :
       ConcStep(p, Store, "getRequest", [NoReq EXCEPT !.requestId = id])

\* storage.getRentalRequestById and the two checks on its result
OfferGetRequest(p) ==
  /\ pc[p] = "getRequest"
  /\ IF req[p].requestId \notin DOMAIN rentalRequests
     THEN ConcStep(p, Store, "done", [req[p] EXCEPT !.code = 404])
     ELSE IF rentalRequests[req[p].requestId].status # "PENDING"
     THEN ConcStep(p, Store, "done", [req[p] EXCEPT !.code = 400])
     ELSE ConcStep(p, Store, "selectRequest", req[p])

\* transaction(): db.select().from(rentalRequests), throw when no row
OfferSelectRequest(p) ==
  /\ pc[p] = "selectRequest"
  /\ IF req[p].requestId \notin DOMAIN rentalRequests
     THEN ConcStep(p, Store, "done", [req[p] EXCEPT !.code = 500])
     ELSE ConcStep(p, Store, "insertOffer", req[p])

\* transaction(): db.insert(parkingOffers)
OfferInsert(p) ==
  /\ pc[p] = "insertOffer"
  /\ LET ins == DbInsertParkingOffer(Store, req[p])
     IN /\ Bounded(ins.st)
        /\ IF ins.ret = Throws
           THEN ConcStep(p, ins.st, "done", [req[p] EXCEPT !.code = 500])
           ELSE ConcStep(p, ins.st, "setMatched",
                         [req[p] EXCEPT !.id = ins.ret])

\* transaction(): db.update(rentalRequests).set({ status: MATCHED })
OfferSetMatched(p) ==
  /\ pc[p] = "setMatched"
  /\ ConcStep(p, DbSetRequestStatus(Store, req[p].requestId, "MATCHED"),
              "logOffer", req[p])

\* createActivityLog and res.status(201)
OfferLog(p) ==
  /\ pc[p] = "logOffer"
  /\ ConcStep(p, createActivityLog(Store, "OFFER_CREATED", req[p].id),
              "done", [req[p] EXCEPT !.code = 201])

\* the statement the request is waiting for throws: catch, res.status(500)
OfferFail(p) ==
  /\ pc[p] \in {"getRequest", "selectRequest", "insertOffer", "setMatched",
               "logOffer"}
  /\ ConcStep(p, Store, "done", [req[p] EXCEPT !.code = 500])

InitOfferConc ==
  /\ InitStore
  /\ backend = "db"
  /\ budget = MaxOfferConcServed

NextOfferConc ==
  \/ PostRentalRequest
  \/ PutRentalRequestStatus
  \/ \E p \in Procs :
       \/ OfferReceive(p)
       \/ OfferGetRequest(p)
       \/ OfferSelectRequest(p)
       \/ OfferInsert(p)
       \/ OfferSetMatched(p)
       \/ OfferLog(p)
       \/ OfferFail(p)

SpecOfferConc == InitOfferConc /\ [][NextOfferConc]_vars

(***************************************************************************)
(* Properties.                                                             *)
(***************************************************************************)
ActiveRentalsOf(p) ==
  {r \in DOMAIN rentals :
     rentals[r].parkingSpaceId = p /\ rentals[r].isActive = "true"}

LogEntry(activityType, relatedId) ==
  [activityType |-> activityType, relatedId |-> relatedId]

LogCount(log, activityType, relatedId) ==
  Cardinality({i \in DOMAIN log : log[i] = LogEntry(activityType, relatedId)})

\* C1: when a create-rental or end-rental request has just been answered
\* with success, a parking space is OCCUPIED exactly if an active rental
\* references it.
OccupiedIffActiveRental ==
  (resp.op \in {"postRental", "endRental"} /\ resp.code \in {200, 201})
    => \A p \in DOMAIN parkingSpaces :
         (parkingSpaces[p].status = "OCCUPIED") <=> (ActiveRentalsOf(p) # {})

\* C2: no parking space id is referenced by two active rentals.
AtMostOneActiveRentalPerSpace ==
  \A p \in SpaceIds : Cardinality(ActiveRentalsOf(p)) <= 1

\* C3: a create-rental request whose body passed validateRequest and names
\* a space whose status is OCCUPIED or MAINTENANCE is refused as a
\* business-rule violation (400, "not available") and adds no rental and no
\* activity-log entry.  (A body that fails validation is answered before
\* any space is looked up; its response carries no space id.)
CreateRentalRefusedUnlessAvailable ==
  [][(/\ resp'.op = "postRental"
      /\ resp'.arg \in DOMAIN parkingSpaces
      /\ parkingSpaces[resp'.arg].status \in {"OCCUPIED", "MAINTENANCE"})
     => (/\ resp'.code = 400
         /\ resp'.err = "business"
         /\ rentals' = rentals
         /\ activityLogs' = activityLogs)]_vars

\* C3 witness: a create-rental request against an OCCUPIED or MAINTENANCE
\* space has just been refused.
CreateRentalRefusedWitness ==
  /\ resp.op = "postRental"
  /\ resp.code = 400
  /\ resp.err = "business"
  /\ resp.arg \in DOMAIN parkingSpaces
  /\ parkingSpaces[resp.arg].status \in {"OCCUPIED", "MAINTENANCE"}

\* C4: endRental(id) on a rental that an earlier endRental(id) already
\* ended returns failure, appends no activity-log entry and leaves every
\* parking space as it is.
SecondEndRentalIsNoOp ==
  [][(/\ resp'.op = "endRental"
      /\ LogCount(activityLogs, "RENTAL_ENDED", resp'.arg) > 0)
     => (/\ resp'.ret = "false"
         /\ activityLogs' = activityLogs
         /\ parkingSpaces' = parkingSpaces)]_vars

\* C5: a create-rental request answered 201 leaves the new rental active,
\* its parking space OCCUPIED and exactly one RENTAL_CREATED entry for it in
\* the activity log.
CreateRentalYieldsActiveRental ==
  (resp.op = "postRental" /\ resp.code = 201)
    => /\ resp.id \in DOMAIN rentals
       /\ rentals[resp.id].isActive = "true"
       /\ parkingSpaces[resp.arg].status = "OCCUPIED"
       /\ LogCount(activityLogs, "RENTAL_CREATED", resp.id) = 1

\* C6: a create-offer request against a rental request whose status is
\* MATCHED is refused as a business-rule violation (400); the request keeps
\* its status and no parking offer is stored.
OfferRefusedOnceMatched ==
  [][(/\ resp'.op = "postParkingOffer"
      /\ resp'.arg \in DOMAIN rentalRequests
      /\ rentalRequests[resp'.arg].status = "MATCHED")
     => (/\ resp'.code = 400
         /\ resp'.err = "business"
         /\ rentalRequests' = rentalRequests
         /\ parkingOffers' = parkingOffers)]_vars

\* C6 witness: a second offer against a request that a first, accepted
\* offer has matched has just been refused.
SecondOfferRefusedWitness ==
  /\ resp.op = "postParkingOffer"
  /\ resp.code = 400
  /\ resp.err = "business"
  /\ resp.arg \in DOMAIN rentalRequests
  /\ rentalRequests[resp.arg].status = "MATCHED"
  /\ \E o \in DOMAIN parkingOffers : parkingOffers[o].requestId = resp.arg

\* C7: the step of an accepted create-offer request against a PENDING
\* request leaves the request MATCHED, stores the offer and ends the
\* activity log with the offer's OFFER_CREATED entry.
OfferMatchesRequest ==
  [][(/\ resp'.op = "postParkingOffer"
      /\ resp'.code = 201)
     => (/\ rentalRequests[resp'.arg].status = "PENDING"
         /\ rentalRequests'[resp'.arg].status = "MATCHED"
         /\ resp'.id \notin DOMAIN parkingOffers
         /\ resp'.id \in DOMAIN parkingOffers'
         /\ parkingOffers'[resp'.id].requestId = resp'.arg
         /\ Len(activityLogs') > Len(activityLogs)
         /\ activityLogs'[Len(activityLogs')]
              = LogEntry("OFFER_CREATED", resp'.id))]_vars

\* C7 witness: an offer has just been accepted and its request is MATCHED.
OfferAcceptedWitness ==
  /\ resp.op = "postParkingOffer"
  /\ resp.code = 201
  /\ rentalRequests[resp.arg].status = "MATCHED"
  /\ resp.id \in DOMAIN parkingOffers

\* C8: deleting a parking space or a household that an active rental
\* references returns failure, keeps every parking space and household and
\* appends nothing to the activity log.
DeleteRefusedWhileActiveRental ==
  [][(\/ /\ resp'.op = "deleteParkingSpace"
         /\ \E r \in DOMAIN rentals :
              /\ rentals[r].parkingSpaceId = resp'.arg
              /\ rentals[r].isActive = "true"
      \/ /\ resp'.op = "deleteHousehold"
         /\ \E r \in DOMAIN rentals :
              /\ rentals[r].householdId = resp'.arg
              /\ rentals[r].isActive = "true")
     => (/\ resp'.ret = "false"
         /\ parkingSpaces' = parkingSpaces
         /\ households' = households
         /\ activityLogs' = activityLogs)]_vars

\* C8 witness: the delete of a stored parking space with an active rental
\* has just been refused.
DeleteRefusedWitness ==
  /\ resp.op = "deleteParkingSpace"
  /\ resp.ret = "false"
  /\ resp.arg \in DOMAIN parkingSpaces
  /\ ActiveRentalsOf(resp.arg) # {}

BothRequestsSucceeded ==
  /\ \A p \in Procs : pc[p] = "done" /\ req[p].code = 201
  /\ req[1].parkingSpaceId = req[2].parkingSpaceId

OfferStoredOnlyWhilePending ==
  [][\A o \in DOMAIN parkingOffers' \ DOMAIN parkingOffers :
       /\ parkingOffers'[o].requestId \in DOMAIN rentalRequests
       /\ rentalRequests[parkingOffers'[o].requestId].status = "PENDING"]_vars

\* the handlers that create, update or delete a parking space, a household
\* or a rental, and the status codes they answer success with
EntityMutations ==
  {"postParkingSpace", "putParkingSpace", "deleteParkingSpace",
   "postHousehold", "putHousehold", "deleteHousehold",
   "postRental", "putRental", "endRental"}
SuccessCodes == {200, 201, 204}

\* C12: a successful create, update or delete of a parking space, household
\* or rental (create-rental and end-rental included) makes the activity log
\* exactly one entry longer.
OneLogEntryPerMutation ==
  [][(resp'.op \in EntityMutations /\ resp'.code \in SuccessCodes)
     => Len(activityLogs') = Len(activityLogs) + 1]_vars

\* C13: the activity log is append-only: every step keeps the entries
\* already written, unchanged and in place, and can only add entries after
\* them.
ActivityLogAppendOnly ==
  [][/\ Len(activityLogs') >= Len(activityLogs)
     /\ SubSeq(activityLogs', 1, Len(activityLogs)) = activityLogs]_vars

\* C13 witness: a parking space has just been deleted, and the entry that
\* recorded its creation is still in the log, followed by further entries.
LogKeptAfterDeleteWitness ==
  /\ resp.op = "deleteParkingSpace"
  /\ resp.code = 204
  /\ resp.arg \notin DOMAIN parkingSpaces
  /\ LogCount(activityLogs, "SPACE_CREATED", resp.arg) = 1
  /\ Len(activityLogs) > Len(initializeData.activityLogs) + 1

\* C14: in every state the dashboard's occupied, available and maintenance
\* counts add up to its total number of parking spaces.
DashboardCountsAddUp ==
  LET stats == getDashboardStats(Store)
  IN stats.occupiedSpaces + stats.availableSpaces + stats.maintenanceSpaces
       = stats.totalSpaces

\* C15: in every state each parking space's status is AVAILABLE, OCCUPIED or
\* MAINTENANCE; it is OCCUPIED when exactly one active rental references the
\* space, and AVAILABLE or MAINTENANCE otherwise.
SpaceStatusFollowsRentals ==
  \A p \in DOMAIN parkingSpaces :
    /\ parkingSpaces[p].status \in SPACE_STATUS
    /\ IF Cardinality(ActiveRentalsOf(p)) = 1
       THEN parkingSpaces[p].status = "OCCUPIED"
       ELSE parkingSpaces[p].status \in {"AVAILABLE", "MAINTENANCE"}

\* C16: in every state no two parking spaces have the same spaceNumber and
\* no two households have the same householdNumber.
NumbersUnique ==
  /\ \A a, b \in DOMAIN parkingSpaces :
       parkingSpaces[a].spaceNumber = parkingSpaces[b].spaceNumber => a = b
  /\ \A a, b \in DOMAIN households :
       households[a].householdNumber = households[b].householdNumber => a = b

\* C17: MATCHED, EXPIRED and CANCELLED are terminal: a rental request that
\* has one of these statuses keeps it in every later step.
TerminalStatusKept ==
  [][\A r \in DOMAIN rentalRequests :
       rentalRequests[r].status \in {"MATCHED", "EXPIRED", "CANCELLED"}
         => /\ r \in DOMAIN rentalRequests'
            /\ rentalRequests'[r].status = rentalRequests[r].status]_vars

\* C18: a create-request call answered 201 stores a new request with
\* status PENDING, whatever status the caller's body carries; and a step
\* that changes the status of a stored request is a step of create-offer or
\* of update-request-status.
RequestStatusForcedPending ==
  [][/\ (resp'.op = "postRentalRequest" /\ resp'.code = 201)
        => /\ resp'.id \notin DOMAIN rentalRequests
           /\ resp'.id \in DOMAIN rentalRequests'
           /\ rentalRequests'[resp'.id].status = "PENDING"
     /\ \A r \in DOMAIN rentalRequests :
          (\/ r \notin DOMAIN rentalRequests'
           \/ rentalRequests'[r].status # rentalRequests[r].status)
            => resp'.op \in {"postParkingOffer", "putRentalRequestStatus"}]_vars

\* C18 witness: a second request has just been created and is PENDING, next
\* to the first one.
RequestCreatedPendingWitness ==
  /\ resp.op = "postRentalRequest"
  /\ resp.code = 201
  /\ rentalRequests[resp.id].status = "PENDING"
  /\ \E r \in DOMAIN rentalRequests : r # resp.id

\* C19: getExpiringRentals(N) answers exactly the rentals that are active
\* and whose endDate is a day of the window from today to today + N days,
\* both ends included.
ExpiringWindowInclusive ==
  resp.op = "getExpiringRentals"
    => resp.ret =
         {r \in DOMAIN rentals :
            /\ rentals[r].isActive = "true"
            /\ DayOf(rentals[r].endDate) >= DayOf(resp.arg.today)
            /\ DayOf(rentals[r].endDate)
                 <= DayOf(resp.arg.today) + resp.arg.daysThreshold}

\* C20: a delete of a parking space or household that an active rental
\* references is answered 400, and a delete is answered 404 only when no
\* record with that id is stored.
RefusedDeleteAnswered400 ==
  [][/\ resp'.op = "deleteParkingSpace"
        => /\ (/\ resp'.arg \in DOMAIN parkingSpaces
               /\ \E r \in getRentalsByParkingSpaceId(Store, resp'.arg) :
                    rentals[r].isActive = "true")
                => resp'.code = 400
           /\ resp'.code = 404 => resp'.arg \notin DOMAIN parkingSpaces
     /\ resp'.op = "deleteHousehold"
        => /\ (/\ resp'.arg \in DOMAIN households
               /\ \E r \in getRentalsByHouseholdId(Store, resp'.arg) :
                    rentals[r].isActive = "true")
                => resp'.code = 400
           /\ resp'.code = 404 => resp'.arg \notin DOMAIN households]_vars

\* the six entity collections
Collections ==
  <<parkingSpaces, households, rentals, activityLogs, rentalRequests,
    parkingOffers>>

RentalsNeverDeleted ==
  [][/\ DOMAIN rentals \subseteq DOMAIN rentals'
     /\ resp'.op = "endRental"
        => /\ \A r \in DOMAIN rentals :
                /\ rentals'[r].parkingSpaceId = rentals[r].parkingSpaceId
                /\ rentals'[r].householdId = rentals[r].householdId
                /\ r # resp'.arg => rentals'[r] = rentals[r]
           /\ resp'.code = 200
                => /\ resp'.arg \in DOMAIN rentals
                   /\ rentals'[resp'.arg].isActive = "false"]_vars

\* C22 witness: a rental has just been ended and its record is in the store,
\* inactive.
EndedRentalKeptWitness ==
  /\ resp.op = "endRental"
  /\ resp.code = 200
  /\ resp.arg \in DOMAIN rentals
  /\ rentals[resp.arg].isActive = "false"

\* C23: in every state each rental names a stored parking space and a
\* stored household, and each parking offer names a stored rental request.
ReferencesResolve ==
  /\ \A r \in DOMAIN rentals :
       /\ rentals[r].parkingSpaceId \in DOMAIN parkingSpaces
       /\ rentals[r].householdId \in DOMAIN households
  /\ \A o \in DOMAIN parkingOffers :
       parkingOffers[o].requestId \in DOMAIN rentalRequests

\* bodies of POST /api/rentals
RentalBodies ==
  [parkingSpaceId : SpaceIds, householdId : HouseholdIds,
   isActive : {Absent, "true", "false"}]

\* C24: MemStorage and DatabaseStorage agree: called on the same store with
\* the same arguments, each IStorage operation returns the same result and
\* leaves the same collections in both, endRental, createRental and
\* createParkingOffer among them.
StoresAgree ==
  /\ \A id \in RentalIds : MemEndRental(Store, id) = DbEndRental(Store, id)
  /\ \A body \in RentalBodies :
       MemCreateRental(Store, body) = DbCreateRental(Store, body)
  /\ \A id \in RequestIds :
       MemCreateParkingOffer(Store, [requestId |-> id])
         = DbCreateParkingOffer(Store, [requestId |-> id])
  /\ \A n \in SpaceNumbers, status \in StatusInputs :
       MemCreateParkingSpace(Store, [spaceNumber |-> n, status |-> status])
         = DbCreateParkingSpace(Store, [spaceNumber |-> n, status |-> status])
  /\ \A id \in SpaceIds :
       /\ MemDeleteParkingSpace(Store, id) = DbDeleteParkingSpace(Store, id)
       /\ \A body \in SpaceUpdates :
            MemUpdateParkingSpace(Store, id, body)
              = DbUpdateParkingSpace(Store, id, body)
  /\ \A id \in HouseholdIds :
       /\ MemDeleteHousehold(Store, id) = DbDeleteHousehold(Store, id)
       /\ \A n \in HouseholdNumbers :
            /\ MemUpdateHousehold(Store, id, [householdNumber |-> n])
                 = DbUpdateHousehold(Store, id, [householdNumber |-> n])
            /\ MemCreateHousehold(Store, [householdNumber |-> n])
                 = DbCreateHousehold(Store, [householdNumber |-> n])
  /\ \A id \in RentalIds, body \in RentalUpdates :
       MemUpdateRental(Store, id, body) = DbUpdateRental(Store, id, body)
  /\ \A id \in RequestIds, status \in REQUEST_STATUS :
       MemUpdateRentalRequestStatus(Store, id, status)
         = DbUpdateRentalRequestStatus(Store, id, status)
  /\ \A status \in {Absent} \cup REQUEST_STATUS :
       MemCreateRentalRequest(Store, [status |-> status])
         = DbCreateRentalRequest(Store, [status |-> status])

RequestStatusOverride ==
  /\ \A id \in RequestIds, s \in REQUEST_STATUS :
       LET u == updateRentalRequestStatus(Store, id, s)
       IN IF id \in DOMAIN rentalRequests
          THEN /\ u.ret = id
               /\ u.st.rentalRequests[id].status = s
          ELSE /\ u.ret = Null
               /\ u.st = Store
  /\ \A id \in RequestIds :
       LET out == putRentalRequestStatus(Store, id, "BOGUS")
       IN /\ out.resp.code = 400
          /\ out.st = Store

\* C26 witness: the status of a request that an accepted offer had matched
\* has just been set back to PENDING.
MatchedRequestReopenedWitness ==
  /\ resp.op = "putRentalRequestStatus"
  /\ resp.code = 200
  /\ rentalRequests[resp.arg].status = "PENDING"
  /\ \E o \in DOMAIN parkingOffers : parkingOffers[o].requestId = resp.arg

\* C27: an end-rental call that returns success ends the activity log with
\* a new RENTAL_ENDED entry for the rental; and when the rental was active,
\* it leaves the rental inactive and its parking space, when stored,
\* AVAILABLE whatever the status of the space was.
EndRentalEffects ==
  [][(resp'.op = "endRental" /\ resp'.ret = "true")
     => /\ Len(activityLogs') > Len(activityLogs)
        /\ activityLogs'[Len(activityLogs')]
             = LogEntry("RENTAL_ENDED", resp'.arg)
        /\ rentals[resp'.arg].isActive = "true"
             => /\ rentals'[resp'.arg].isActive = "false"
                /\ rentals[resp'.arg].parkingSpaceId \in DOMAIN parkingSpaces
                     => parkingSpaces'[rentals[resp'.arg].parkingSpaceId].status
                          = "AVAILABLE"]_vars

\* a step hands out ids in order: the ids new in the collection are not
\* below the counter before the step and are below the counter after it,
\* and the counter does not go down
FreshIds(old, new, oldId, newId) ==
  /\ newId >= oldId
  /\ \A id \in DOMAIN new \ DOMAIN old : id >= oldId /\ id < newId

\* C28: within each entity kind every stored id is below the id counter, and
\* a step that adds a record gives it an id not below the counter, hence
\* above every id handed out before, deleted records included; a create
\* answered 201 returns that id.
IdsNeverReused ==
  [][/\ FreshIds(parkingSpaces, parkingSpaces',
                 parkingSpaceCurrentId, parkingSpaceCurrentId')
     /\ FreshIds(households, households',
                 householdCurrentId, householdCurrentId')
     /\ FreshIds(rentals, rentals', rentalCurrentId, rentalCurrentId')
     /\ FreshIds(rentalRequests, rentalRequests',
                 rentalRequestCurrentId, rentalRequestCurrentId')
     /\ FreshIds(parkingOffers, parkingOffers',
                 parkingOfferCurrentId, parkingOfferCurrentId')
     /\ \A id \in DOMAIN parkingSpaces : id < parkingSpaceCurrentId
     /\ \A id \in DOMAIN households : id < householdCurrentId
     /\ \A id \in DOMAIN rentals : id < rentalCurrentId
     /\ \A id \in DOMAIN rentalRequests : id < rentalRequestCurrentId
     /\ \A id \in DOMAIN parkingOffers : id < parkingOfferCurrentId
     /\ (resp'.op = "postParkingSpace" /\ resp'.code = 201)
          => /\ resp'.id = parkingSpaceCurrentId
             /\ resp'.id \in DOMAIN parkingSpaces' \ DOMAIN parkingSpaces
     /\ (resp'.op = "postHousehold" /\ resp'.code = 201)
          => /\ resp'.id = householdCurrentId
             /\ resp'.id \in DOMAIN households' \ DOMAIN households
     /\ (resp'.op = "postRental" /\ resp'.code = 201)
          => /\ resp'.id = rentalCurrentId
             /\ resp'.id \in DOMAIN rentals' \ DOMAIN rentals
     /\ (resp'.op = "postRentalRequest" /\ resp'.code = 201)
          => /\ resp'.id = rentalRequestCurrentId
             /\ resp'.id \in DOMAIN rentalRequests' \ DOMAIN rentalRequests
     /\ (resp'.op = "postParkingOffer" /\ resp'.code = 201)
          => /\ resp'.id = parkingOfferCurrentId
             /\ resp'.id \in DOMAIN parkingOffers' \ DOMAIN parkingOffers]_vars

\* C28 witness: a parking space has just been created after the seed space
\* was deleted, and its id is above the id of the deleted one.
FreshIdAfterDeleteWitness ==
  /\ resp.op = "postParkingSpace"
  /\ resp.code = 201
  /\ resp.id > 1
  /\ 1 \notin DOMAIN parkingSpaces
  /\ LogCount(activityLogs, "SPACE_CREATED", 1) = 1

\* C29: after any sequence of create-rental and end-rental requests the
\* dashboard reports as many active rentals as occupied spaces.
ActiveRentalsMatchOccupiedSpaces ==
  LET stats == getDashboardStats(Store)
  IN stats.activeRentalsCount = stats.occupiedSpaces

\* the handlers of the request/offer flow
RequestFlow == {"postRentalRequest", "putRentalRequestStatus", "postParkingOffer"}

\* C30: a step of a rental-request or parking-offer handler leaves every
\* parking space, household and rental as it is, and a step of a
\* parking-space, household or rental handler leaves every rental request
\* and parking offer as it is.
FlowsIsolated ==
  [][/\ resp'.op \in RequestFlow
          => /\ parkingSpaces' = parkingSpaces
             /\ households' = households
             /\ rentals' = rentals
     /\ resp'.op \in EntityMutations
          => /\ rentalRequests' = rentalRequests
             /\ parkingOffers' = parkingOffers]_vars

\* C30 witness: a rental has just been created in a store that holds a
\* rental request, which is still PENDING.
RentalNextToRequestWitness ==
  /\ resp.op = "postRental"
  /\ resp.code = 201
  /\ resp.id \in DOMAIN rentals
  /\ \E r \in DOMAIN rentalRequests : rentalRequests[r].status = "PENDING"

====
